---- MODULE Spec2Model ----
(***************************************************************************)
(* Model of qidata/xmp.py: the object view over an XMP packet.             *)
(*                                                                         *)
(* The packet (libxmp.XMPMeta) is a flat property store; XMPMetadata       *)
(* builds one tree of XMPElement objects per namespace from the packet's   *)
(* enumeration; XMPVirtualElement stands for an address without element.   *)
(*                                                                         *)
(* Addresses are Python strings, modelled as sequences of one-character    *)
(* strings so that startswith, split, count and the three regular          *)
(* expressions of TreePredicatesMixin are computed as the code does.       *)
(***************************************************************************)
EXTENDS Integers, Sequences, FiniteSets, TLC

VARIABLES store, enum, nodes, pc, op, steps, args, ret, file

vars == <<store, enum, nodes, pc, op, steps, args, ret, file>>

----------------------------------------------------------------------------
(* Bounds *)

\* most properties (non-schema tuples) in a packet
MaxProps == 3

\* most operations applied to a built tree in one behaviour
MaxOps == 1

\* most parts (a name, a /name step, an [n] step) in an address the tree
\* predicates are called with
MaxParts == 3

\* most calls made on one XMPFile
MaxCalls == 4

----------------------------------------------------------------------------
(* Python string primitives on character sequences *)

DigitChars == <<"0", "1", "2", "3", "4", "5", "6", "7", "8", "9">>

Range(s) == {s[i] : i \in DOMAIN s}

\* str.startswith
StartsWith(s, p) == Len(p) <= Len(s) /\ SubSeq(s, 1, Len(p)) = p

\* str.count of a one-character string
Count(s, c) == Cardinality({i \in DOMAIN s : s[i] = c})

\* s[n:]
Drop(s, n) == SubSeq(s, n + 1, Len(s))

\* position of the last occurrence of c in s, 0 when absent
LastIndexOf(s, c) ==
    IF \E i \in DOMAIN s : s[i] = c
    THEN CHOOSE i \in DOMAIN s : s[i] = c /\ \A j \in DOMAIN s : s[j] = c => j <= i
    ELSE 0

\* position of the first occurrence of c in s, 0 when absent
FirstIndexOf(s, c) ==
    IF \E i \in DOMAIN s : s[i] = c
    THEN CHOOSE i \in DOMAIN s : s[i] = c /\ \A j \in DOMAIN s : s[j] = c => i <= j
    ELSE 0

\* r"^\[\d+\]$"
INDEX_REGEX(s) ==
    /\ Len(s) >= 3
    /\ s[1] = "["
    /\ s[Len(s)] = "]"
    /\ \A i \in 2..(Len(s) - 1) : \E d \in DOMAIN DigitChars : s[i] = DigitChars[d]

\* r"(.*)\[(\d+)\]$" : the match exists iff some suffix is an index
ARRAY_ELEMENT_REGEX(s) ==
    \E k \in DOMAIN s : INDEX_REGEX(Drop(s, k - 1))

\* group(1) of ARRAY_ELEMENT_REGEX: what precedes the trailing index
ARRAY_ELEMENT_GROUP1(s) ==
    LET k == CHOOSE k \in DOMAIN s : INDEX_REGEX(Drop(s, k - 1))
    IN SubSeq(s, 1, k - 1)

\* r"^/[^/]+$"
STRUCT_CHILD_REGEX(s) ==
    /\ Len(s) >= 2
    /\ s[1] = "/"
    /\ \A i \in 2..Len(s) : s[i] # "/"

----------------------------------------------------------------------------
(* General XMP API *)

isQualified(name) == \E i \in DOMAIN name : name[i] = ":"

qualify(name, prefix) == prefix \o <<":">> \o name

----------------------------------------------------------------------------
(* TreePredicatesMixin: tree operations for anything that has a namespace  *)
(* uid and an address.  Elements are records with fields namespace (the    *)
(* uid) and address.                                                       *)

\* the value None where the code returns it for an address
NoneAddress == <<"None">>

\* address.split("/")[-1]
name(address) == Drop(address, LastIndexOf(address, "/"))

\* XMPVirtualElement(namespace, address): the namespace it is made with
\* and the address
XMPVirtualElement(ns, address) ==
    [namespace |-> ns, address |-> address, virtual |-> TRUE]

\* what a property returns when no branch of it returns
NoneUid == "None"

\* the uid for a LibXMPElement or an XMPElement; an XMPVirtualElement is
\* neither and the property falls through to None
namespace_uid(e) ==
    IF "virtual" \in DOMAIN e THEN NoneUid ELSE e.namespace

is_top_level(address) ==
    /\ Count(address, "/") = 0
    /\ ~ARRAY_ELEMENT_REGEX(address)

is_array_element(address) == ARRAY_ELEMENT_REGEX(address)

\* parent_address had it split at the last / before looking for an index
parent_address_split(address) ==
    IF is_top_level(address) THEN NoneAddress
    ELSE IF Count(address, "/") > 0
    THEN SubSeq(address, 1, LastIndexOf(address, "/") - 1)
    ELSE ARRAY_ELEMENT_GROUP1(address)

parent_address(address) ==
    IF is_top_level(address) THEN NoneAddress
    ELSE IF is_array_element(address) THEN ARRAY_ELEMENT_GROUP1(address)
    ELSE SubSeq(address, 1, LastIndexOf(address, "/") - 1)

absoluteAddress(base_address, relative_address) ==
    IF base_address = <<>> THEN relative_address
    ELSE IF INDEX_REGEX(relative_address) THEN base_address \o relative_address
    ELSE base_address \o <<"/">> \o relative_address

inSameNamespace(self, other) == namespace_uid(self) = namespace_uid(other)

isDescendantOf(self, other) ==
    /\ StartsWith(self.address, other.address)
    /\ inSameNamespace(self, other)
    /\ self.address # other.address

isAncestorOf(self, other) == isDescendantOf(other, self)

\* isChildrenOf had it matched either pattern whatever the delta ends with
isChildrenOf_either(self, other) ==
    IF ~inSameNamespace(self, other) \/ ~StartsWith(self.address, other.address)
    THEN FALSE
    ELSE LET address_delta == Drop(self.address, Len(other.address))
             struct_depth_delta == Count(address_delta, "/")
             delta_is_array_element == ARRAY_ELEMENT_REGEX(address_delta)
             other_is_namespace == other.address = <<>>
         IN IF other_is_namespace /\ ~delta_is_array_element
            THEN struct_depth_delta = 0
            ELSE INDEX_REGEX(address_delta) \/ STRUCT_CHILD_REGEX(address_delta)

isChildrenOf(self, other) ==
    IF ~inSameNamespace(self, other) \/ ~StartsWith(self.address, other.address)
    THEN FALSE
    ELSE LET address_delta == Drop(self.address, Len(other.address))
             struct_depth_delta == Count(address_delta, "/")
             delta_is_array_element == ARRAY_ELEMENT_REGEX(address_delta)
             other_is_namespace == other.address = <<>>
         IN IF other_is_namespace /\ ~delta_is_array_element
            THEN struct_depth_delta = 0
            ELSE IF delta_is_array_element
            THEN INDEX_REGEX(address_delta)
            ELSE STRUCT_CHILD_REGEX(address_delta)

\* isParentOf had it asked self instead of other
isParentOf_self(self, other) == isChildrenOf(self, other)

isParentOf(self, other) == isChildrenOf(other, self)

\* descendentsIn had it looked only at what follows self in the list
descendentsIn_following(self, elements) ==
    LET at == {i \in DOMAIN elements :
                  /\ elements[i].namespace = self.namespace
                  /\ elements[i].address = self.address}
        from == IF at = {} THEN 0 ELSE CHOOSE i \in at : TRUE
    IN SelectSeq(SubSeq(elements, from + 1, Len(elements)),
                 LAMBDA e : isDescendantOf(e, self))

\* the filters keep the order of the list they are given
descendentsIn(self, elements) ==
    SelectSeq(elements, LAMBDA e : isDescendantOf(e, self))

\* childrenIn had it filtered with isDescendantOf
childrenIn_descendants(self, elements) ==
    SelectSeq(elements, LAMBDA e : isDescendantOf(e, self))

childrenIn(self, elements) ==
    SelectSeq(elements, LAMBDA e : isChildrenOf(e, self))

----------------------------------------------------------------------------
(* LibXMPElement: one tuple (namespace, address, value, descriptor) of the *)
(* packet's enumeration.                                                   *)

Descriptor(schema, struct, array, ordered) ==
    [IS_SCHEMA |-> schema, VALUE_IS_STRUCT |-> struct,
     VALUE_IS_ARRAY |-> array, ARRAY_IS_ORDERED |-> ordered]

LibXMPElement(ns, address, value, descriptor) ==
    [namespace |-> ns, address |-> address, value |-> value,
     descriptor |-> descriptor]

is_container(e) ==
    e.descriptor.VALUE_IS_STRUCT \/ e.descriptor.VALUE_IS_ARRAY

is_value(e) == ~is_container(e)

is_namespace(e) == e.descriptor.IS_SCHEMA

is_struct(e) == e.descriptor.VALUE_IS_STRUCT

\* is_array had it left the ordered flag out
is_array_any(e) == e.descriptor.VALUE_IS_ARRAY

is_array(e) == e.descriptor.VALUE_IS_ARRAY /\ e.descriptor.ARRAY_IS_ORDERED

----------------------------------------------------------------------------
(* The elements of the object tree.  The tree is held flat: one record per *)
(* element, the children named by their addresses.  A namespace is the     *)
(* element of kind "Namespace" whose address is the empty string.          *)
(* children is the ordered collection (OrderedDict of a struct, list of an *)
(* array); members is the set(...) of an XMPSet, which has no order.       *)

Node(ns, address, kind, children, members) ==
    [namespace |-> ns, address |-> address, kind |-> kind,
     children |-> children, members |-> members]

XMPValue(ns, address) == Node(ns, address, "Value", <<>>, {})

XMPStructure(ns, address, children) ==
    Node(ns, address, "Structure", children, {})

XMPArray(ns, address, children) == Node(ns, address, "Array", children, {})

XMPSet(ns, address, children) == Node(ns, address, "Set", <<>>, Range(children))

XMPNamespace(uid, children) == Node(uid, <<>>, "Namespace", children, {})

\* the addresses of a list of elements, in the order of the list
Addresses(elements) == [i \in DOMAIN elements |-> elements[i].address]

\* the addresses a container element holds as children
ChildAddresses(n) == Range(n.children) \cup n.members

RECURSIVE fromLibXMP(_, _, _)
\* the elements of the subtree built for libxmp_element
fromLibXMP(libxmp_element, potential_descendents, ns) ==
    IF is_value(libxmp_element)
    THEN {XMPValue(ns, libxmp_element.address)}
    ELSE LET libxmp_descendents ==
                 descendentsIn(libxmp_element, potential_descendents)
             libxmp_children == childrenIn(libxmp_element, libxmp_descendents)
             children_elements ==
                 UNION {fromLibXMP(libxmp_children[i], libxmp_descendents, ns) :
                            i \in DOMAIN libxmp_children}
             root ==
                 IF is_struct(libxmp_element)
                 THEN XMPStructure(ns, libxmp_element.address,
                                   Addresses(libxmp_children))
                 ELSE IF is_array(libxmp_element)
                 THEN XMPArray(ns, libxmp_element.address,
                               Addresses(libxmp_children))
                 ELSE XMPSet(ns, libxmp_element.address,
                             Addresses(libxmp_children))
         IN {root} \cup children_elements

\* set(children) hashes every child; XMPStructure inherits __hash__ = None
\* from collections.Mapping, so an XMPSet of structs raises TypeError
XMPSetRaises(built) ==
    \E s \in built : /\ s.kind = "Set"
                     /\ \E c \in built : /\ c.namespace = s.namespace
                                         /\ c.address \in s.members
                                         /\ c.kind = "Structure"

\* the tuples of one namespace, schema tuples dropped, in enumeration order
elements_by_namespace(enumeration, uid) ==
    SelectSeq(enumeration, LAMBDA e : ~is_namespace(e) /\ e.namespace = uid)

\* the uids that get an entry in elements_by_namespace
GroupedNamespaces(enumeration) ==
    {enumeration[i].namespace :
        i \in {j \in DOMAIN enumeration : ~is_namespace(enumeration[j])}}

\* one iteration of the loop that constructs the namespaces
NamespaceTree(uid, ns_libxmp_descendents) ==
    LET root == [namespace |-> uid, address |-> <<>>]
        libxmp_members == childrenIn(root, ns_libxmp_descendents)
    IN {XMPNamespace(uid, Addresses(libxmp_members))}
       \cup UNION {fromLibXMP(libxmp_members[i], ns_libxmp_descendents, uid) :
                       i \in DOMAIN libxmp_members}

\* XMPMetadata.namespaces: the values of _namespaces
namespaces(tree) == {n \in tree : n.kind = "Namespace"}

\* XMPMetadata.__len__
XMPMetadata_len(tree) == Cardinality(namespaces(tree))

\* XMPMetadata.__getitem__ had it kept the namespace it makes for a miss
XMPMetadata_getitem_kept(tree, key) ==
    IF \E n \in namespaces(tree) : n.namespace = key
    THEN [tree |-> tree,
          element |-> CHOOSE n \in namespaces(tree) : n.namespace = key]
    ELSE [tree |-> tree \cup {XMPNamespace(key, <<>>)},
          element |-> XMPNamespace(key, <<>>)]

\* XMPMetadata.__getitem__: the namespace of _namespaces, or on KeyError a
\* new XMPNamespace of that uid without children; tree is what the lookup
\* leaves in _namespaces
XMPMetadata_getitem(tree, key) ==
    IF \E n \in namespaces(tree) : n.namespace = key
    THEN [tree |-> tree,
          element |-> CHOOSE n \in namespaces(tree) : n.namespace = key]
    ELSE [tree |-> tree, element |-> XMPNamespace(key, <<>>)]

\* XMPMetadata.__init__: the elements of all namespace trees
XMPMetadata(enumeration) ==
    UNION {NamespaceTree(uid, elements_by_namespace(enumeration, uid)) :
               uid \in GroupedNamespaces(enumeration)}

----------------------------------------------------------------------------
(* Python values: what is assigned to an element and what value returns.   *)
(* t is the type: "none", "text" (s holds it), "int" (n holds it), "list"  *)
(* (items), "set" (members), "dict" (items holds the values in key order). *)

PyValue(t, s, n, items, members) ==
    [t |-> t, s |-> s, n |-> n, items |-> items, members |-> members]

PyNone == PyValue("none", "", 0, <<>>, {})

PyText(s) == PyValue("text", s, 0, <<>>, {})

PyInt(n) == PyValue("int", "", n, <<>>, {})

PyBool(b) == PyValue("bool", IF b THEN "True" ELSE "False", 0, <<>>, {})

PyList(items) == PyValue("list", "", 0, items, {})

PySet(members) == PyValue("set", "", 0, <<>>, members)

PyDict(items) == PyValue("dict", "", 0, items, {})

\* hash(v) raises TypeError for list, set and dict
Unhashable(v) == v.t \in {"list", "set", "dict"}

\* unicode(n) for the integers the model assigns
unicode(v) ==
    IF v.t = "int"
    THEN (0 :> "0" @@ 1 :> "1" @@ 2 :> "2" @@ 3 :> "3" @@ 4 :> "4" @@
          5 :> "5" @@ 6 :> "6" @@ 7 :> "7" @@ 8 :> "8" @@ 9 :> "9")[v.n]
    ELSE v.s

\* the outcome of a call: the exception raised ("none" when it returns)
\* and the value returned
Outcome(err, val) == [err |-> err, val |-> val]

Returns(val) == Outcome("none", val)

Raises(err) == Outcome(err, PyNone)

----------------------------------------------------------------------------
(* The packet: libxmp.XMPMeta, a set of tuples with one tuple per address  *)
(* of a namespace, plus one schema tuple per declared namespace.           *)

NS1 == "ns1"

NS2 == "ns2"

\* a uid no packet of the model declares
NS3 == "ns3"

\* get_prefix_for_namespace: the registered prefix, colon included
get_prefix_for_namespace(uid) ==
    IF uid = NS1 THEN <<"p", ":">> ELSE <<"q", ":">>

DescSchema == Descriptor(TRUE, FALSE, FALSE, FALSE)

DescValue == Descriptor(FALSE, FALSE, FALSE, FALSE)

DescStruct == Descriptor(FALSE, TRUE, FALSE, FALSE)

DescSeq == Descriptor(FALSE, FALSE, TRUE, TRUE)

DescBag == Descriptor(FALSE, FALSE, TRUE, FALSE)

\* a descriptor libxmp gives no node: both a struct and an ordered array
DescStructSeq == Descriptor(FALSE, TRUE, TRUE, TRUE)

\* p:a, p:a/p:b, p:ab (shares a string prefix with p:a), p:r, p:r[1],
\* p:r[1]/p:f, p:r[2] in ns1 and q:c in ns2
Addr_a == <<"p", ":", "a">>

Addr_a_b == Addr_a \o <<"/", "p", ":", "b">>

Addr_r == <<"p", ":", "r">>

Addr_r1 == Addr_r \o <<"[", "1", "]">>

\* the tuples a packet is drawn from, in the order libxmp enumerates them
\* (a schema tuple, then the properties of the namespace depth first);
\* an address with several tuples has several possible forms, a packet
\* holds one
PacketTuples ==
    << LibXMPElement(NS1, <<>>, "", DescSchema),
       LibXMPElement(NS1, Addr_a, "5", DescValue),
       LibXMPElement(NS1, Addr_a, "", DescStruct),
       LibXMPElement(NS1, Addr_a_b, "x", DescValue),
       LibXMPElement(NS1, <<"p", ":", "a", "b">>, "y", DescValue),
       LibXMPElement(NS1, Addr_r, "", DescSeq),
       LibXMPElement(NS1, Addr_r, "", DescBag),
       LibXMPElement(NS1, Addr_r, "", DescStructSeq),
       LibXMPElement(NS1, Addr_r1, "1", DescValue),
       LibXMPElement(NS1, Addr_r1, "", DescStruct),
       LibXMPElement(NS1, Addr_r1 \o <<"/", "p", ":", "f">>, "x", DescValue),
       LibXMPElement(NS1, Addr_r \o <<"[", "2", "]">>, "2", DescValue),
       LibXMPElement(NS2, <<>>, "", DescSchema),
       LibXMPElement(NS2, <<"q", ":", "c">>, "z", DescValue) >>

Properties(packet) == {e \in packet : ~is_namespace(e)}

\* what the constructor is to tolerate: one tuple per address, every tuple
\* below the top level has its parent's tuple, every namespace in use has
\* its schema tuple
Tolerated(packet) ==
    /\ \A e, f \in packet :
           (e.namespace = f.namespace /\ e.address = f.address) => e = f
    /\ \A e \in Properties(packet) :
           /\ \E f \in packet : is_namespace(f) /\ f.namespace = e.namespace
           /\ ~is_top_level(e.address) =>
                  \E f \in Properties(packet) :
                      /\ f.namespace = e.namespace
                      /\ f.address = parent_address(e.address)

\* what libxmp holds: moreover no schema tuple without a property and no
\* tuple that is both a struct and an array
WellFormed(packet) ==
    /\ Tolerated(packet)
    /\ \A f \in packet :
           is_namespace(f) =>
               \E e \in Properties(packet) : e.namespace = f.namespace
    /\ \A e \in packet : ~(is_struct(e) /\ e.descriptor.VALUE_IS_ARRAY)

Packets ==
    {packet \in SUBSET Range(PacketTuples) :
        /\ Cardinality(Properties(packet)) <= MaxProps
        /\ WellFormed(packet)}

PacketsTolerated ==
    {packet \in SUBSET Range(PacketTuples) :
        /\ Cardinality(Properties(packet)) <= MaxProps
        /\ Tolerated(packet)}

\* the enumeration libxmp gives for a packet
DocumentOrder(packet) == SelectSeq(PacketTuples, LAMBDA e : e \in packet)

RECURSIVE Orderings(_)
\* every order in which the tuples of a set can be enumerated
Orderings(S) ==
    IF S = {} THEN {<<>>}
    ELSE UNION {{<<e>> \o rest : rest \in Orderings(S \ {e})} : e \in S}

\* does_property_exist
does_property_exist(packet, ns, address) ==
    \E e \in Properties(packet) : e.namespace = ns /\ e.address = address

\* get_property: the text held at the address
get_property(packet, ns, address) ==
    IF does_property_exist(packet, ns, address)
    THEN Returns(PyText((CHOOSE e \in Properties(packet) :
                            e.namespace = ns /\ e.address = address).value))
    ELSE Raises("XMPError")

\* set_property: the address holds the text as a simple value afterwards
set_property(packet, ns, address, text) ==
    {e \in packet : ~(~is_namespace(e) /\ e.namespace = ns /\ e.address = address)}
        \cup {LibXMPElement(ns, address, text, DescValue)}

\* delete_property: removes the property and everything below it
delete_property(packet, ns, address) ==
    {e \in packet :
        ~(/\ ~is_namespace(e)
          /\ e.namespace = ns
          /\ (e.address = address
                \/ (/\ StartsWith(e.address, address)
                    /\ e.address[Len(address) + 1] \in {"/", "["})))}

\* count_array_items: the number of items the packet holds for an array
count_array_items(packet, ns, address) ==
    Cardinality({e \in Properties(packet) :
                    /\ e.namespace = ns
                    /\ StartsWith(e.address, address)
                    /\ INDEX_REGEX(Drop(e.address, Len(address)))})

----------------------------------------------------------------------------
(* Reading the tree *)

HasNode(tree, ns, address) ==
    \E n \in tree : n.namespace = ns /\ n.address = address

NodeAt(tree, ns, address) ==
    CHOOSE n \in tree : n.namespace = ns /\ n.address = address

\* the first exception raised by a list of outcomes, "none" if none raises
FirstError(outs) ==
    IF \E i \in DOMAIN outs : outs[i].err # "none"
    THEN outs[CHOOSE i \in DOMAIN outs :
                  /\ outs[i].err # "none"
                  /\ \A j \in DOMAIN outs : outs[j].err # "none" => i <= j].err
    ELSE "none"

\* XMPStructure.value: the generator iterates the name children, which is
\* bound nowhere; evaluating it raises NameError
XMPStructure_value(child_outcomes) == Raises("NameError")

\* XMPArray.value: [c.value for c in self.children]
XMPArray_value(child_outcomes) ==
    IF FirstError(child_outcomes) # "none"
    THEN Raises(FirstError(child_outcomes))
    ELSE Returns(PyList([i \in DOMAIN child_outcomes |-> child_outcomes[i].val]))

\* XMPSet.value: set(c.value for c in self.children); child_outcomes is a set
XMPSet_value(child_outcomes) ==
    IF \E o \in child_outcomes : o.err # "none"
    THEN Raises((CHOOSE o \in child_outcomes : o.err # "none").err)
    ELSE IF \E o \in child_outcomes : Unhashable(o.val)
    THEN Raises("TypeError")
    ELSE Returns(PySet({o.val : o \in child_outcomes}))

RECURSIVE value(_, _, _)
\* the value property of an element
value(n, tree, packet) ==
    CASE n.kind = "Value" -> get_property(packet, n.namespace, n.address)
      [] n.kind \in {"Structure", "Namespace"} ->
            XMPStructure_value(
                [i \in DOMAIN n.children |->
                    value(NodeAt(tree, n.namespace, n.children[i]), tree, packet)])
      [] n.kind = "Array" ->
            XMPArray_value(
                [i \in DOMAIN n.children |->
                    value(NodeAt(tree, n.namespace, n.children[i]), tree, packet)])
      [] n.kind = "Set" ->
            XMPSet_value(
                {value(NodeAt(tree, n.namespace, a), tree, packet) :
                    a \in n.members})

\* XMPValue.desynchronized: raise <bool> is itself a TypeError
XMPValue_desynchronized(n, packet) == Raises("TypeError")

\* XMPStructure.desynchronized: any(children.desynchronized for c in
\* self.children) evaluates the unbound name children once per child
XMPStructure_desynchronized(n, packet) ==
    IF ~does_property_exist(packet, n.namespace, n.address)
    THEN Returns(PyBool(TRUE))
    ELSE IF n.children # <<>> THEN Raises("NameError")
    ELSE Returns(PyBool(FALSE))

\* XMPArray.desynchronized and XMPSet.desynchronized
XMPArray_desynchronized(n, packet) ==
    IF ~does_property_exist(packet, n.namespace, n.address)
    THEN Returns(PyBool(TRUE))
    ELSE IF ChildAddresses(n) # {} THEN Raises("NameError")
    ELSE Returns(PyBool(count_array_items(packet, n.namespace, n.address)
                            # Cardinality(ChildAddresses(n))))

\* the desynchronized property of an element below a namespace
desynchronized(n, packet) ==
    CASE n.kind = "Value" -> XMPValue_desynchronized(n, packet)
      [] n.kind = "Structure" -> XMPStructure_desynchronized(n, packet)
      [] n.kind \in {"Array", "Set"} -> XMPArray_desynchronized(n, packet)

----------------------------------------------------------------------------
(* XMPNamespace *)

\* the prefix property: the registered prefix without its colon
prefix(uid) ==
    SubSeq(get_prefix_for_namespace(uid), 1,
           Len(get_prefix_for_namespace(uid)) - 1)

\* XMPNamespace.qualify
XMPNamespace_qualify(uid, field_name) ==
    IF isQualified(field_name) THEN field_name
    ELSE qualify(field_name, prefix(uid))

----------------------------------------------------------------------------
(* Navigation.  A lookup returns the address of the element found, or      *)
(* raises.                                                                 *)

Found(address) == [err |-> "none", address |-> address]

Failed(err) == [err |-> err, address |-> NoneAddress]

RECURSIVE XMPStructure_getitem(_, _, _)
\* XMPStructure.__getitem__ with a text key, on any element: an XMPArray or
\* XMPSet indexes its children with the key and an XMPValue has no
\* __getitem__, both raise TypeError
XMPStructure_getitem(tree, n, key) ==
    IF n.kind \notin {"Structure", "Namespace"}
    THEN Failed("TypeError")
    ELSE LET cut == FirstIndexOf(key, "/")
             first == IF cut = 0 THEN key ELSE SubSeq(key, 1, cut - 1)
             nested == IF cut = 0 THEN <<>> ELSE Drop(key, cut)
             qualified_field_name == XMPNamespace_qualify(n.namespace, first)
             hits == {i \in DOMAIN n.children :
                         name(n.children[i]) = qualified_field_name}
         IN IF hits = {}
            THEN Failed("KeyError")
            ELSE LET child == n.children[CHOOSE i \in hits : TRUE]
                 IN IF cut # 0
                    THEN XMPStructure_getitem(
                             tree, NodeAt(tree, n.namespace, child), nested)
                    ELSE Found(child)

\* XMPStructure.__getitem__ with any key: an int indexes self.children,
\* which is the itervalues() iterator and cannot be indexed (TypeError); a
\* key that is neither int nor text raises TypeError
XMPStructure_getitem_key(tree, n, key) ==
    IF key.t = "int" THEN Failed("TypeError")
    ELSE IF key.t # "text" THEN Failed("TypeError")
    ELSE XMPStructure_getitem(tree, n, key.chars)

\* XMPStructure.__getattr__ had it made the virtual element at the
\* qualified name alone
XMPStructure_getattr_relative(tree, n, field_name) ==
    LET field == XMPStructure_getitem(tree, n, field_name)
    IN IF field.err = "none"
       THEN [virtual |-> FALSE, address |-> field.address]
       ELSE [virtual |-> TRUE,
             address |-> XMPNamespace_qualify(n.namespace, field_name)]

\* XMPStructure.__getattr__ for a name that is no Python attribute: the
\* field when it exists, else a virtual element; virtual tells which
XMPStructure_getattr(tree, n, field_name) ==
    LET field == XMPStructure_getitem(tree, n, field_name)
    IN IF field.err = "none"
       THEN [virtual |-> FALSE, address |-> field.address]
       ELSE [virtual |-> TRUE,
             address |-> absoluteAddress(
                 n.address, XMPNamespace_qualify(n.namespace, field_name))]

\* XMPVirtualElement.parent: the parent element when the lookup finds it,
\* a virtual element when the lookup raises KeyError; other errors escape
XMPVirtualElement_parent(tree, ns, address) ==
    IF parent_address(address) = NoneAddress
    THEN [err |-> "none", virtual |-> FALSE, address |-> <<>>]
    ELSE LET found == XMPStructure_getitem(
                          tree, NodeAt(tree, ns, <<>>), parent_address(address))
         IN IF found.err = "none"
            THEN [err |-> "none", virtual |-> FALSE, address |-> found.address]
            ELSE IF found.err = "KeyError"
            THEN [err |-> "none", virtual |-> TRUE,
                  address |-> parent_address(address)]
            ELSE [err |-> found.err, virtual |-> FALSE, address |-> NoneAddress]

\* the keys of __getitem__: an int, a text, or a value of another type
Key(t, n, chars) == [t |-> t, n |-> n, chars |-> chars]

KeyInt(n) == Key("int", n, <<>>)

KeyText(chars) == Key("text", 0, chars)

KeyFloat == Key("float", 0, <<>>)

RECURSIVE NatText(_)
\* "%s" % n for a natural number
NatText(n) ==
    IF n < 10 THEN <<DigitChars[n + 1]>>
    ELSE NatText(n \div 10) \o <<DigitChars[(n % 10) + 1]>>

\* "%s" % n for an integer
IntText(n) == IF n < 0 THEN <<"-">> \o NatText(-n) ELSE NatText(n)

\* what a navigation returns: the element, or the exception raised
Navigated(element) == [err |-> "none", element |-> element]

NavigationFailed(err) == [err |-> err, element |-> PyNone]

\* XMPVirtualElement.__getattr__ for a name that is no Python attribute
XMPVirtualElement_getattr(ns, address, field_name) ==
    Navigated(XMPVirtualElement(
        ns, absoluteAddress(address, XMPNamespace_qualify(ns, field_name))))

\* XMPVirtualElement.__getitem__
XMPVirtualElement_getitem(ns, address, key) ==
    IF key.t = "int"
    THEN Navigated(XMPVirtualElement(
             ns, absoluteAddress(address, <<"[">> \o IntText(key.n) \o <<"]">>)))
    ELSE IF key.t = "text"
    THEN Navigated(XMPVirtualElement(
             ns, absoluteAddress(address, XMPNamespace_qualify(ns, key.chars))))
    ELSE NavigationFailed("TypeError")

----------------------------------------------------------------------------
(* Mutation.  A mutation returns the exception it raises ("none" when it   *)
(* returns), the tree and the packet it leaves.                            *)

Effect(err, tree, packet) == [err |-> err, tree |-> tree, packet |-> packet]

\* XMPValue.__set__: writes the text form of the value to the packet
XMPValue_set(tree, packet, ns, address, v) ==
    Effect("none", tree,
           set_property(packet, ns, address,
                        IF v.t # "text" THEN unicode(v) ELSE v.s))

\* XMPElement.__set__, which the containers inherit
XMPElement_set(tree, packet, ns, address, v) ==
    Effect("NotImplementedError", tree, packet)

\* XMPStructure.insert
XMPStructure_insert(tree, packet, parent, i, element) ==
    Effect("NotImplementedError", tree, packet)

\* parent.append(new_element): MutableSequence.append calls insert on a
\* struct or namespace; XMPArray, XMPSet and XMPValue have no append
append(tree, packet, parent, element) ==
    IF parent.kind \in {"Structure", "Namespace"}
    THEN XMPStructure_insert(tree, packet, parent, Len(parent.children), element)
    ELSE Effect("AttributeError", tree, packet)

\* the element __set__ creates for a value: a Mapping gives a struct, a
\* Sequence (list, and also text: basestring is a Sequence) an array, a
\* Set a set, anything else a value
NewElementKind(v) ==
    IF v.t = "dict" THEN "Structure"
    ELSE IF v.t \in {"list", "text"} THEN "Array"
    ELSE IF v.t = "set" THEN "Set"
    ELSE "Value"

RECURSIVE XMPVirtualElement_set(_, _, _, _, _)
\* XMPVirtualElement.__set__
XMPVirtualElement_set(tree, packet, ns, address, v) ==
    LET parent == XMPVirtualElement_parent(tree, ns, address)
    IN IF parent.err # "none"
       THEN Effect(parent.err, tree, packet)
       ELSE IF parent.virtual
       THEN LET up == XMPVirtualElement_set(tree, packet, ns, parent.address,
                                            PyDict(<<v>>))
            IN IF up.err # "none"
               THEN up
               ELSE Effect("NotImplementedError", up.tree, up.packet)
       ELSE LET kind == NewElementKind(v)
                new_element == Node(ns, address, kind, <<>>, {})
                written == IF kind = "Value"
                           THEN XMPValue_set(tree, packet, ns, address, v)
                           ELSE Effect("none", tree, packet)
            IN append(written.tree, written.packet,
                      NodeAt(tree, ns, parent.address), new_element)

\* XMPStructure.__setattr__ on a frozen struct, for a name that is no
\* Python attribute: child.__set__ of the field or of a virtual element
XMPStructure_setattr(tree, packet, n, field_name, v) ==
    LET child == XMPStructure_getattr(tree, n, field_name)
    IN IF child.virtual
       THEN XMPVirtualElement_set(tree, packet, n.namespace, child.address, v)
       ELSE IF NodeAt(tree, n.namespace, child.address).kind = "Value"
       THEN XMPValue_set(tree, packet, n.namespace, child.address, v)
       ELSE XMPElement_set(tree, packet, n.namespace, child.address, v)

\* XMPElement.__delete__
XMPElement_delete(tree, packet, ns, address) ==
    Effect("none", tree, delete_property(packet, ns, address))

\* XMPStructure.__delattr__ for a name that is no Python attribute:
\* object.__delattr__ raises AttributeError(name); the handler deletes the
\* field's property and raises the error again.  For a missing field the
\* virtual element's __delete__ is itself a virtual element and calling it
\* raises TypeError.
XMPStructure_delattr(tree, packet, n, field_name) ==
    LET child == XMPStructure_getattr(tree, n, field_name)
    IN IF child.virtual
       THEN Effect("TypeError", tree, packet)
       ELSE LET deleted == XMPElement_delete(tree, packet, n.namespace,
                                             child.address)
            IN Effect("AttributeError", deleted.tree, deleted.packet)

----------------------------------------------------------------------------
(* The state machine.                                                      *)
(*   store  the packet (libxmp.XMPMeta)                                    *)
(*   enum   the enumeration XMPMetadata.__init__ iterates                  *)
(*   nodes  the object tree of the XMPMetadata                             *)
(*   pc     "new" before XMPMetadata is constructed, "built" after,        *)
(*          "failed" when the constructor raised                           *)
(*   op     the last operation and its outcome                             *)
(*   steps  the number of mutations applied to the tree                    *)
(*   args   the two elements a tree predicate is called with               *)
(*   ret    the object the last call returned                              *)
(*   file   an XMPFile, the file on disk it names and the calls made on it *)

Operation(opname, ns, target, address, v, err, result) ==
    [name |-> opname, namespace |-> ns, target |-> target,
     address |-> address, value |-> v, err |-> err, result |-> result]

NoOperation == Operation("none", "", <<>>, <<>>, PyNone, "none", PyNone)

NoArguments == [self |-> PyNone, other |-> PyNone]

NoReturn == PyNone

\* no XMPFile has been constructed
NoFile == PyNone

\* the values the model assigns
AssignedValues ==
    {PyText("hello"), PyInt(5), PyDict(<<>>), PyList(<<>>), PySet({})}

\* the field names the model navigates with, unqualified as an attribute is
FieldNames == {<<"a">>, <<"r">>, <<"n">>}

\* the addresses the model makes virtual elements for: p:n, p:a/p:n,
\* p:n/p:m, p:n[1], p:r[3], p:r[1]/p:g, p:n/p:m/p:k
VirtualAddresses ==
    {<<"p", ":", "n">>,
     Addr_a \o <<"/", "p", ":", "n">>,
     <<"p", ":", "n", "/", "p", ":", "m">>,
     <<"p", ":", "n", "[", "1", "]">>,
     Addr_r \o <<"[", "3", "]">>,
     Addr_r1 \o <<"/", "p", ":", "g">>,
     <<"p", ":", "n", "/", "p", ":", "m", "/", "p", ":", "k">>}

\* the keys the model indexes a virtual element with
NavigationKeys ==
    {KeyInt(0), KeyInt(12), KeyInt(-1),
     KeyText(<<"n">>), KeyText(<<"q", ":", "x">>), KeyFloat}

\* the names and keys the model navigates a struct with: a, n, b, f, the
\* path a/b, two ints and a float
NavigationNames == {<<"a">>, <<"n">>, <<"b">>, <<"f">>}

StructKeys ==
    {KeyText(f) : f \in NavigationNames}
        \cup {KeyText(<<"a", "/", "b">>), KeyInt(0), KeyInt(1), KeyFloat}

TypeOK ==
    /\ \A e \in store :
           /\ e.namespace \in {NS1, NS2}
           /\ e.descriptor \in {DescSchema, DescValue, DescStruct, DescSeq,
                                 DescBag, DescStructSeq}
    /\ \A n \in nodes :
           n.kind \in {"Namespace", "Structure", "Array", "Set", "Value"}
    /\ pc \in {"new", "built", "failed", "predicates", "file"}
    /\ steps \in 0..MaxOps

\* the packet is enumerated as libxmp does
Init ==
    /\ store \in Packets
    /\ enum = DocumentOrder(store)
    /\ nodes = {}
    /\ pc = "new"
    /\ op = NoOperation
    /\ steps = 0
    /\ args = NoArguments
    /\ ret = NoReturn
    /\ file = NoFile

\* the packet's tuples reach the constructor in any order
InitAnyOrder ==
    /\ store \in Packets
    /\ enum \in Orderings(store)
    /\ nodes = {}
    /\ pc = "new"
    /\ op = NoOperation
    /\ steps = 0
    /\ args = NoArguments
    /\ ret = NoReturn
    /\ file = NoFile

\* the packet is any the constructor is to tolerate
InitTolerated ==
    /\ store \in PacketsTolerated
    /\ enum = DocumentOrder(store)
    /\ nodes = {}
    /\ pc = "new"
    /\ op = NoOperation
    /\ steps = 0
    /\ args = NoArguments
    /\ ret = NoReturn
    /\ file = NoFile

\* XMPMetadata(libxmp_metadata)
Build ==
    /\ pc = "new"
    /\ LET built == XMPMetadata(enum)
       IN IF XMPSetRaises(built)
          THEN /\ pc' = "failed"
               /\ nodes' = {}
               /\ op' = Operation("build", "", <<>>, <<>>, PyNone,
                                  "TypeError", PyNone)
          ELSE /\ pc' = "built"
               /\ nodes' = built
               /\ op' = Operation("build", "", <<>>, <<>>, PyNone,
                                  "none", PyNone)
    /\ UNCHANGED <<store, enum, steps, args, ret, file>>

\* element.value
ReadValue(n) ==
    /\ pc = "built"
    /\ LET out == value(n, nodes, store)
       IN op' = Operation("value", n.namespace, n.address, n.address, PyNone,
                          out.err, out.val)
    /\ UNCHANGED <<store, enum, nodes, pc, steps, args, ret, file>>

\* element.desynchronized of an element below a namespace
ReadDesynchronized(n) ==
    /\ pc = "built"
    /\ n.kind # "Namespace"
    /\ LET out == desynchronized(n, store)
       IN op' = Operation("desynchronized", n.namespace, n.address, n.address,
                          PyNone, out.err, out.val)
    /\ UNCHANGED <<store, enum, nodes, pc, steps, args, ret, file>>

\* xmp[uid]
GetNamespace(uid) ==
    /\ pc = "built"
    /\ LET got == XMPMetadata_getitem(nodes, uid)
       IN /\ nodes' = got.tree
          /\ ret' = got.element
    /\ op' = Operation("namespace", uid, <<>>, <<>>, PyNone, "none", PyNone)
    /\ UNCHANGED <<store, enum, pc, steps, args, file>>

\* struct.field_name = v
SetAttr(n, field_name, v) ==
    /\ pc = "built"
    /\ steps < MaxOps
    /\ n.kind \in {"Structure", "Namespace"}
    /\ LET child == XMPStructure_getattr(nodes, n, field_name)
           done == XMPStructure_setattr(nodes, store, n, field_name, v)
       IN /\ nodes' = done.tree
          /\ store' = done.packet
          /\ op' = Operation(IF child.virtual THEN "virtual_set" ELSE "set",
                             n.namespace, n.address, child.address, v,
                             done.err, PyNone)
    /\ steps' = steps + 1
    /\ UNCHANGED <<enum, pc, args, ret, file>>

\* XMPVirtualElement(namespace, address).__set__(owner, v)
VirtualSet(ns, address, v) ==
    /\ pc = "built"
    /\ steps < MaxOps
    /\ HasNode(nodes, ns, <<>>)
    /\ ~HasNode(nodes, ns, address)
    /\ LET done == XMPVirtualElement_set(nodes, store, ns, address, v)
       IN /\ nodes' = done.tree
          /\ store' = done.packet
          /\ op' = Operation("virtual_set", ns,
                             IF parent_address(address) = NoneAddress
                             THEN <<>> ELSE parent_address(address),
                             address, v, done.err, PyNone)
    /\ steps' = steps + 1
    /\ UNCHANGED <<enum, pc, args, ret, file>>

\* del struct.field_name
DelAttr(n, field_name) ==
    /\ pc = "built"
    /\ steps < MaxOps
    /\ n.kind \in {"Structure", "Namespace"}
    /\ LET child == XMPStructure_getattr(nodes, n, field_name)
           done == XMPStructure_delattr(nodes, store, n, field_name)
       IN /\ nodes' = done.tree
          /\ store' = done.packet
          /\ op' = Operation(IF child.virtual THEN "virtual_delete" ELSE "delete",
                             n.namespace, n.address, child.address, PyNone,
                             done.err, PyNone)
    /\ steps' = steps + 1
    /\ UNCHANGED <<enum, pc, args, ret, file>>

\* XMPVirtualElement(namespace, address).field_name
VirtualGetAttr(ns, address, field_name) ==
    /\ pc = "built"
    /\ ~HasNode(nodes, ns, address)
    /\ LET got == XMPVirtualElement_getattr(ns, address, field_name)
       IN /\ op' = Operation("virtual_getattr", ns, address, address, PyNone,
                             got.err, PyNone)
          /\ ret' = got.element
    /\ args' = [self |-> XMPVirtualElement(ns, address),
                other |-> KeyText(field_name)]
    /\ UNCHANGED <<store, enum, nodes, pc, steps, file>>

\* XMPVirtualElement(namespace, address)[key]
VirtualGetItem(ns, address, key) ==
    /\ pc = "built"
    /\ ~HasNode(nodes, ns, address)
    /\ LET got == XMPVirtualElement_getitem(ns, address, key)
       IN /\ op' = Operation("virtual_getitem", ns, address, address, PyNone,
                             got.err, PyNone)
          /\ ret' = got.element
    /\ args' = [self |-> XMPVirtualElement(ns, address), other |-> key]
    /\ UNCHANGED <<store, enum, nodes, pc, steps, file>>

Next ==
    \/ Build
    \/ \E n \in nodes : ReadValue(n)
    \/ \E n \in nodes, f \in FieldNames, v \in AssignedValues : SetAttr(n, f, v)
    \/ \E a \in VirtualAddresses, v \in AssignedValues : VirtualSet(NS1, a, v)
    \/ \E n \in nodes, f \in FieldNames : DelAttr(n, f)
    \/ \E n \in nodes : ReadDesynchronized(n)

Spec == Init /\ [][Next]_vars

NextBuild ==
    \/ Build
    \/ \E n \in nodes : ReadValue(n)

SpecBuild == InitAnyOrder /\ [][NextBuild]_vars

SpecTolerated == InitTolerated /\ [][NextBuild]_vars

\* struct[key]
StructGetItem(n, key) ==
    /\ pc = "built"
    /\ n.kind \in {"Structure", "Namespace"}
    /\ LET got == XMPStructure_getitem_key(nodes, n, key)
       IN /\ op' = Operation("getitem", n.namespace, n.address, got.address,
                             PyNone, got.err, PyNone)
          /\ ret' = IF got.err = "none"
                    THEN NodeAt(nodes, n.namespace, got.address)
                    ELSE NoReturn
    /\ args' = [self |-> n, other |-> key]
    /\ UNCHANGED <<store, enum, nodes, pc, steps, file>>

\* struct.field_name, read
StructGetAttr(n, field_name) ==
    /\ pc = "built"
    /\ n.kind \in {"Structure", "Namespace"}
    /\ LET got == XMPStructure_getattr(nodes, n, field_name)
       IN /\ op' = Operation("getattr", n.namespace, n.address, got.address,
                             PyNone, "none", PyNone)
          /\ ret' = IF got.virtual
                    THEN XMPVirtualElement(n.namespace, got.address)
                    ELSE NodeAt(nodes, n.namespace, got.address)
    /\ args' = [self |-> n, other |-> KeyText(field_name)]
    /\ UNCHANGED <<store, enum, nodes, pc, steps, file>>

\* the tree is built, structs and virtual elements are navigated
NextNavigate ==
    \/ Build
    \/ \E n \in nodes, k \in StructKeys : StructGetItem(n, k)
    \/ \E n \in nodes, f \in NavigationNames : StructGetAttr(n, f)
    \/ \E a \in VirtualAddresses, f \in FieldNames : VirtualGetAttr(NS1, a, f)
    \/ \E a \in VirtualAddresses, k \in NavigationKeys : VirtualGetItem(NS1, a, k)

SpecNavigate == Init /\ [][NextNavigate]_vars

\* the tree is built and namespaces are looked up
NextLookup ==
    \/ Build
    \/ \E uid \in {NS1, NS2, NS3} : GetNamespace(uid)

SpecLookup == Init /\ [][NextLookup]_vars

----------------------------------------------------------------------------
(* XMPFile: the handle to a file that holds a packet.  An attribute that   *)
(* is None or an object is a sequence, empty for None.                     *)
(*   rw               opened for update                                    *)
(*   libxmp_file      "None" or "XMPFiles"                                 *)
(*   libxmp_metadata  the packet in memory                                 *)
(*   metadata         "None" or "XMPMetadata"                              *)
(*   original_repr    what repr gave when the packet was read              *)
(*   disk             the packet the file holds                            *)
(*   format_known     files_check_file_format knows the file's type        *)
(*   repr_is_text     repr(XMPMeta) is the serialized packet; when FALSE   *)
(*                    it names the object and never changes                *)
(*   files_open       the libxmp.XMPFiles objects not closed yet           *)
(*   calls            the calls made on the XMPFile, in order              *)
(*   err              what the last call raised                            *)

None == <<>>

Some(x) == <<x>>

\* XMPFile(file_path, rw) for a file that holds the packet disk
XMPFile(rw, disk, format_known, repr_is_text) ==
    [rw |-> rw, libxmp_file |-> "None", libxmp_metadata |-> None,
     metadata |-> "None", original_repr |-> None, disk |-> disk,
     format_known |-> format_known, repr_is_text |-> repr_is_text,
     files_open |-> 0, calls |-> <<>>, err |-> "none"]

\* repr(self._libxmp_metadata)
repr(f) == IF f.repr_is_text THEN f.libxmp_metadata ELSE Some("XMPMeta")

is_open(f) ==
    /\ f.libxmp_file # "None"
    /\ f.libxmp_metadata # None
    /\ f.metadata # "None"

has_changed(f) == repr(f) # f.original_repr

read_only(f) == ~f.rw

\* the libxmp_metadata setter: XMPMetadata is constructed from the packet,
\* and when the constructor raises neither metadata nor the repr is set
XMPFile_libxmp_metadata(f, packet) ==
    LET read == [f EXCEPT !.libxmp_metadata = Some(packet)]
    IN IF XMPSetRaises(XMPMetadata(DocumentOrder(packet)))
       THEN [read EXCEPT !.err = "TypeError"]
       ELSE [read EXCEPT !.metadata = "XMPMetadata",
                         !.original_repr = repr(read),
                         !.err = "none"]

\* XMPFile.open
XMPFile_open(f) ==
    IF is_open(f) \/ ~f.format_known
    THEN [f EXCEPT !.err = "RuntimeError"]
    ELSE XMPFile_libxmp_metadata(
             [f EXCEPT !.libxmp_file = "XMPFiles",
                       !.files_open = f.files_open + 1],
             f.disk)

\* XMPFile._reset
XMPFile_reset(f) ==
    [f EXCEPT !.libxmp_file = "None", !.libxmp_metadata = None,
              !.metadata = "None", !.original_repr = None]

\* what the try block of close raises; can_put tells whether can_put_xmp
\* is true and put_xmp returns
XMPFile_close_try(f, can_put) ==
    IF read_only(f) /\ has_changed(f) THEN "RuntimeWarning"
    ELSE IF f.rw /\ ~can_put THEN "RuntimeError"
    ELSE "none"

\* the packet on disk had put_xmp been called whatever rw is
XMPFile_close_disk_any(f, can_put) ==
    IF can_put THEN f.libxmp_metadata[1] ELSE f.disk

\* the packet on disk after close: put_xmp is called for a file opened for
\* update when nothing was raised before, and close_file writes it
XMPFile_close_disk(f, can_put) ==
    IF f.rw /\ can_put /\ XMPFile_close_try(f, can_put) = "none"
    THEN f.libxmp_metadata[1]
    ELSE f.disk

\* close had it released the file after the try block instead of in finally
XMPFile_close_after(f, can_put) ==
    IF f.libxmp_file = "None"
    THEN [f EXCEPT !.err = "AttributeError"]
    ELSE IF XMPFile_close_try(f, can_put) # "none"
    THEN [f EXCEPT !.err = XMPFile_close_try(f, can_put)]
    ELSE XMPFile_reset([f EXCEPT !.disk = XMPFile_close_disk(f, can_put),
                                 !.files_open = f.files_open - 1,
                                 !.err = "none"])

\* XMPFile.close: finally closes the XMPFiles and resets the attributes;
\* without an XMPFiles the finally block raises AttributeError itself
XMPFile_close(f, can_put) ==
    IF f.libxmp_file = "None"
    THEN [f EXCEPT !.err = "AttributeError"]
    ELSE XMPFile_reset([f EXCEPT !.disk = XMPFile_close_disk(f, can_put),
                                 !.files_open = f.files_open - 1,
                                 !.err = XMPFile_close_try(f, can_put)])

\* the files a handle is made for: packets of at most one property
FilePackets == {packet \in Packets : Cardinality(Properties(packet)) <= 1}

Called(f, call) == [f EXCEPT !.calls = Append(f.calls, call)]

InitFile ==
    /\ store = {}
    /\ enum = <<>>
    /\ nodes = {}
    /\ pc = "file"
    /\ op = NoOperation
    /\ steps = 0
    /\ args = NoArguments
    /\ ret = NoReturn
    /\ \E rw, format_known, repr_is_text \in BOOLEAN, disk \in FilePackets :
           file = XMPFile(rw, disk, format_known, repr_is_text)

\* xmp_file.open()
Open ==
    /\ pc = "file"
    /\ Len(file.calls) < MaxCalls
    /\ file' = XMPFile_open(Called(file, "open"))
    /\ UNCHANGED <<store, enum, nodes, pc, op, steps, args, ret>>

\* a value of xmp_file.metadata is assigned a text
Modify(e, text) ==
    /\ pc = "file"
    /\ Len(file.calls) < MaxCalls
    /\ is_open(file)
    /\ e \in Properties(file.libxmp_metadata[1])
    /\ is_value(e)
    /\ file' = [Called(file, "modify") EXCEPT
                   !.libxmp_metadata =
                       Some(set_property(file.libxmp_metadata[1],
                                         e.namespace, e.address, text)),
                   !.err = "none"]
    /\ UNCHANGED <<store, enum, nodes, pc, op, steps, args, ret>>

\* xmp_file.close()
Close(can_put) ==
    /\ pc = "file"
    /\ Len(file.calls) < MaxCalls
    /\ file' = XMPFile_close(Called(file, "close"), can_put)
    /\ UNCHANGED <<store, enum, nodes, pc, op, steps, args, ret>>

NextFile ==
    \/ Open
    \/ \E e \in Range(PacketTuples), text \in {"5", "hello"} : Modify(e, text)
    \/ \E can_put \in BOOLEAN : Close(can_put)

SpecFile == InitFile /\ [][NextFile]_vars

----------------------------------------------------------------------------
(* The tree predicates called on two elements.  The predicates read the    *)
(* namespace uid and the address of the elements and nothing else, so the  *)
(* elements are drawn without a packet: a LibXMPElement or an              *)
(* XMPVirtualElement at any address.                                       *)

\* the parts addresses are made of: a name, a struct step, two index steps
AddressParts ==
    {<<"a">>, <<"/", "b">>, <<"[", "1", "]">>, <<"[", "1", "0", "]">>}

RECURSIVE AddressesOf(_)
\* the strings of at most n parts
AddressesOf(n) ==
    IF n = 0 THEN {<<>>}
    ELSE LET shorter == AddressesOf(n - 1)
         IN shorter \cup {s \o part : s \in shorter, part \in AddressParts}

\* the empty address of a namespace and the addresses without an empty
\* first segment
AddressUniverse ==
    {address \in AddressesOf(MaxParts) : address = <<>> \/ address[1] # "/"}

\* the elements of one namespace at one address
ElementsAt(ns, address) ==
    {LibXMPElement(ns, address, "", DescValue), XMPVirtualElement(ns, address)}

\* an element of the same class and namespace at another address
At(e, address) == [e EXCEPT !.address = address]

InitPredicates ==
    /\ store = {}
    /\ enum = <<>>
    /\ nodes = {}
    /\ pc = "predicates"
    /\ op = NoOperation
    /\ steps = 0
    /\ \E a, b \in AddressUniverse, ns \in {NS1, NS2} :
           \E self \in ElementsAt(NS1, a), other \in ElementsAt(ns, b) :
               args = [self |-> self, other |-> other]
    /\ ret = NoReturn
    /\ file = NoFile

\* self.isChildrenOf(other), other.isParentOf(self), self.isDescendantOf(other),
\* other.isAncestorOf(self), self.parent_address and
\* self.isChildrenOf(an element at self.parent_address)
Relate ==
    /\ pc = "predicates"
    /\ op.name = "none"
    /\ op' = Operation("predicates", args.self.namespace, args.other.address,
                       args.self.address, PyNone, "none", PyNone)
    /\ ret' = [isChildrenOf |-> isChildrenOf(args.self, args.other),
               isParentOf |-> isParentOf(args.other, args.self),
               isDescendantOf |-> isDescendantOf(args.self, args.other),
               isAncestorOf |-> isAncestorOf(args.other, args.self),
               is_top_level |-> is_top_level(args.self.address),
               parent_address |-> parent_address(args.self.address),
               isChildrenOfParent |->
                   IF is_top_level(args.self.address) THEN FALSE
                   ELSE isChildrenOf(
                            args.self,
                            At(args.self, parent_address(args.self.address)))]
    /\ UNCHANGED <<store, enum, nodes, pc, steps, args, file>>

NextPredicates == Relate

SpecPredicates == InitPredicates /\ [][NextPredicates]_vars

----------------------------------------------------------------------------
(* Properties of assignment, deletion and value                            *)

RECURSIVE ProperAncestors(_)
\* the addresses above an address, the namespace's empty address left out
ProperAncestors(address) ==
    IF parent_address(address) = NoneAddress THEN {}
    ELSE {parent_address(address)} \cup ProperAncestors(parent_address(address))

\* the address on the way down from ancestor to address that is the
\* ancestor's direct child
StepBelow(ancestor, address) ==
    CHOOSE c \in ProperAncestors(address) \cup {address} :
        parent_address(c) = ancestor

\* the variant the value's shape asks for: a map a Structure, a sequence an
\* Ordered Array, a set an Unordered Set, a scalar (text included) a Value
ShapeVariant(v) ==
    CASE v.t = "dict" -> "Structure"
      [] v.t = "list" -> "Array"
      [] v.t = "set" -> "Set"
      [] OTHER -> "Value"

\* C1: assigning V to the virtual element at an address P without element
\* completes without error; afterwards the tree has an element at P whose
\* value is V (checked for text, which is read back as it is stored) and
\* whose desynchronized is false, and the packet has a property at P.
C1_MaterializationRoundTrip ==
    op.name = "virtual_set" =>
        /\ op.err = "none"
        /\ HasNode(nodes, op.namespace, op.address)
        /\ does_property_exist(store, op.namespace, op.address)
        /\ LET n == NodeAt(nodes, op.namespace, op.address)
           IN /\ op.value.t = "text" => value(n, nodes, store) = Returns(op.value)
              /\ desynchronized(n, store) = Returns(PyBool(FALSE))

\* C2: after an assignment to a virtual element, every proper ancestor
\* address of the written address has an element in the tree; an ancestor
\* the assignment had to create is an Ordered Array or Set when its child
\* on the path is addressed by index and a Structure when it is addressed
\* by field name.
C2_NeverSkipsAncestors ==
    [][(op'.name = "virtual_set" /\ steps' = steps + 1) =>
          \A a \in ProperAncestors(op'.address) :
              /\ HasNode(nodes', op'.namespace, a)
              /\ ~HasNode(nodes, op'.namespace, a) =>
                     NodeAt(nodes', op'.namespace, a).kind \in
                         (IF is_array_element(StepBelow(a, op'.address))
                          THEN {"Array", "Set"} ELSE {"Structure"})]_vars

\* C3: an assignment to a virtual element whose parent exists adds exactly
\* one element, at the written address, of the variant the value's shape
\* asks for; a Value is written through to the packet; the parent holds the
\* new element among its children.
C3_ShapeClassification ==
    [][(/\ op'.name = "virtual_set"
        /\ steps' = steps + 1
        /\ HasNode(nodes, op'.namespace, op'.target)) =>
          /\ nodes' \ nodes \subseteq
                 {n \in nodes' : n.namespace = op'.namespace
                                   /\ n.address \in {op'.address, op'.target}}
          /\ ~HasNode(nodes, op'.namespace, op'.address)
          /\ HasNode(nodes', op'.namespace, op'.address)
          /\ NodeAt(nodes', op'.namespace, op'.address).kind
                 = ShapeVariant(op'.value)
          /\ ShapeVariant(op'.value) = "Value" =>
                 does_property_exist(store', op'.namespace, op'.address)
          /\ op'.address \in
                 ChildAddresses(NodeAt(nodes', op'.namespace, op'.target))]_vars

\* C4: after a deletion of an element the packet has no property at its
\* address and the children of its parent no longer contain it.
C4_DeleteRemoves ==
    op.name = "delete" =>
        /\ ~does_property_exist(store, op.namespace, op.address)
        /\ op.address \notin
               ChildAddresses(NodeAt(nodes, op.namespace, op.target))

\* C8: reading value on a container element succeeds; a Structure gives the
\* map of its children's values in child order, an Ordered Array the list
\* of its children's values in child order, an Unordered Set the set of its
\* children's values.
C8_ContainerValue ==
    (op.name = "value" /\ HasNode(nodes, op.namespace, op.address)) =>
        LET n == NodeAt(nodes, op.namespace, op.address)
            ofchild(a) == value(NodeAt(nodes, n.namespace, a), nodes, store).val
        IN /\ n.kind = "Structure" =>
                  /\ op.err = "none"
                  /\ op.result = PyDict([i \in DOMAIN n.children |->
                                            ofchild(n.children[i])])
           /\ n.kind = "Array" =>
                  /\ op.err = "none"
                  /\ op.result = PyList([i \in DOMAIN n.children |->
                                            ofchild(n.children[i])])
           /\ n.kind = "Set" =>
                  /\ op.err = "none"
                  /\ op.result = PySet({ofchild(a) : a \in n.members})

----------------------------------------------------------------------------
(* Properties of the tree build                                            *)

\* the property tuples of the enumeration
Enumerated == {e \in Range(enum) : ~is_namespace(e)}

\* the number of places where the tree holds the address as a child
Occurrences(tree, ns, address) ==
    Cardinality(UNION {{<<n.address, i>> :
                           i \in {j \in DOMAIN n.children :
                                     n.children[j] = address}} :
                          n \in {m \in tree : m.namespace = ns}})
    + Cardinality({n \in tree : /\ n.namespace = ns
                                /\ address \in n.members})

\* the elements of the tree that are leaves
Leaves(tree) == {n \in tree : n.kind = "Value"}

\* C5: after the build, the leaves of all namespace trees are the
\* enumerated scalar tuples: every scalar tuple has its leaf, held exactly
\* once in the tree and giving the tuple's value, and every leaf has its
\* scalar tuple.
C5_BuildRoundTrip ==
    pc # "new" =>
        /\ pc = "built"
        /\ \A e \in Enumerated :
               is_value(e) =>
                   /\ HasNode(nodes, e.namespace, e.address)
                   /\ NodeAt(nodes, e.namespace, e.address).kind = "Value"
                   /\ Occurrences(nodes, e.namespace, e.address) = 1
                   /\ value(NodeAt(nodes, e.namespace, e.address), nodes, store)
                          = Returns(PyText(e.value))
        /\ \A n \in Leaves(nodes) :
               \E e \in Enumerated :
                   /\ is_value(e)
                   /\ e.namespace = n.namespace
                   /\ e.address = n.address

\* the tuple an element of the tree was built from
TupleOf(n) ==
    CHOOSE e \in Enumerated : e.namespace = n.namespace /\ e.address = n.address

\* the variant the descriptor flags ask for
VariantOfFlags(d) ==
    IF d.VALUE_IS_STRUCT THEN "Structure"
    ELSE IF d.VALUE_IS_ARRAY /\ d.ARRAY_IS_ORDERED THEN "Array"
    ELSE IF d.VALUE_IS_ARRAY THEN "Set"
    ELSE "Value"

ScenarioA ==
    {LibXMPElement(NS1, Addr_a, "5", DescValue),
     LibXMPElement(NS1, Addr_a_b, "x", DescValue)}

\* the addresses of the enumerated tuples directly below an address
EnumeratedBelow(ns, address) ==
    {c.address : c \in {e \in Enumerated :
                           /\ e.namespace = ns
                           /\ parent_address(e.address) = address}}

RECURSIVE Decimal(_)
\* the number a sequence of digits writes
Decimal(digits) ==
    IF digits = <<>> THEN 0
    ELSE 10 * Decimal(SubSeq(digits, 1, Len(digits) - 1))
         + (CHOOSE k \in 0..9 :
                <<"0", "1", "2", "3", "4", "5", "6", "7", "8", "9">>[k + 1]
                    = digits[Len(digits)])

\* the index an array element's address ends in
IndexOf(address) ==
    Decimal(SubSeq(address, LastIndexOf(address, "[") + 1, Len(address) - 1))

\* C9: every Ordered Array the build creates holds its children in
\* increasing index order, whatever the order of the enumeration.
C9_ArrayIndexOrder ==
    pc = "built" =>
        \A n \in nodes :
            n.kind = "Array" =>
                \A i, j \in DOMAIN n.children :
                    (/\ i < j
                     /\ is_array_element(n.children[i])
                     /\ is_array_element(n.children[j])) =>
                        IndexOf(n.children[i]) < IndexOf(n.children[j])

\* what identifies an element: namespace, address, variant and the
\* addresses of the elements holding it as a child
Identities(tree) ==
    {<<n.namespace, n.address, n.kind,
       {m.address : m \in {h \in tree : /\ h.namespace = n.namespace
                                        /\ n.address \in ChildAddresses(h)}}>> :
        n \in tree}

\* C10: the build of an enumeration gives the same namespaces and, in each
\* namespace, the same elements (address, variant, parent) as the build of
\* the same tuples in document order, and raises exactly when that one does;
\* so all orders of the same tuples give the same elements.
C10_OrderIndependent ==
    pc # "new" =>
        LET reference == XMPMetadata(DocumentOrder(Range(enum)))
        IN /\ pc = "failed" <=> XMPSetRaises(reference)
           /\ pc = "built" => Identities(nodes) = Identities(reference)

\* C10 witness: a build from an enumeration that lists a child before its
\* parent
C10_Witness ==
    /\ pc = "built"
    /\ \E i, j \in DOMAIN enum :
           /\ i < j
           /\ ~is_namespace(enum[i])
           /\ ~is_namespace(enum[j])
           /\ isChildrenOf(enum[i], enum[j])
           /\ HasNode(nodes, enum[i].namespace, enum[i].address)

----------------------------------------------------------------------------
(* Properties of the tree predicates                                       *)

\* the call of the predicates has returned
Related == op.name = "predicates"

\* the element has a namespace uid: it is no virtual element
HasUid(e) == namespace_uid(e) # NoneUid

\* both elements have a namespace uid
RelatedWithUid == Related /\ HasUid(args.self) /\ HasUid(args.other)

\* C11: x.isChildrenOf(y) and y.isParentOf(x) give the same answer for every
\* pair of elements, whatever their classes, namespaces and addresses
C11_ChildParentInverse ==
    Related => ret.isChildrenOf = ret.isParentOf

\* a child and its parent in one namespace, both predicates true
C11_Witness ==
    /\ Related
    /\ args.self.address = <<"a", "/", "b">>
    /\ args.other.address = <<"a">>
    /\ ret.isChildrenOf
    /\ ret.isParentOf

\* C12: an element that is not top-level is a child of the element at its
\* parent_address, and its address is the parent_address followed by one
\* index or, when it ends with no index, by one /segment
C12_ChildOfParentAddress ==
    (Related /\ HasUid(args.self) /\ ~ret.is_top_level) =>
        /\ ret.isChildrenOfParent
        /\ StartsWith(args.self.address, ret.parent_address)
        /\ LET stripped == Drop(args.self.address, Len(ret.parent_address))
           IN IF ARRAY_ELEMENT_REGEX(args.self.address)
              THEN INDEX_REGEX(stripped)
              ELSE STRUCT_CHILD_REGEX(stripped)

\* the item a/b[1] of an array field: its parent address is a/b
C12_Witness ==
    /\ Related
    /\ HasUid(args.self)
    /\ args.self.address = <<"a", "/", "b", "[", "1", "]">>
    /\ ret.parent_address = <<"a", "/", "b">>
    /\ ret.isChildrenOfParent

RECURSIVE Reaches(_, _)
\* a chain of one or more isChildrenOf steps leads from self up to other;
\* what lies between them is a proper prefix of self's address
Reaches(self, other) ==
    \/ isChildrenOf(self, other)
    \/ \E k \in (Len(other.address) + 1)..(Len(self.address) - 1) :
           /\ isChildrenOf(self, At(self, SubSeq(self.address, 1, k)))
           /\ Reaches(At(self, SubSeq(self.address, 1, k)), other)

\* C13: in one namespace isDescendantOf is the transitive closure of
\* isChildrenOf without the identity: a is a descendant of b exactly when
\* a differs from b and a chain of isChildrenOf steps leads from a to b
C13_DescendantIsClosure ==
    (RelatedWithUid /\ args.self.namespace = args.other.namespace) =>
        (ret.isDescendantOf <=>
            /\ args.self.address # args.other.address
            /\ Reaches(args.self, args.other))

\* the address is b followed by exactly one level: one index, or one
\* /segment that is no item of an array field
OneLevelBelow(a, b) ==
    /\ StartsWith(a, b)
    /\ LET suffix == Drop(a, Len(b))
       IN \/ INDEX_REGEX(suffix)
          \/ /\ STRUCT_CHILD_REGEX(suffix)
             /\ ~ARRAY_ELEMENT_REGEX(suffix)

\* C14: below an element b that is no namespace, a is a child of b exactly
\* when a's address is b's followed by one level; b itself, deeper
\* descendants, the items b/f[n] of an array field and addresses that only
\* share b as a string prefix are no children
C14_OneLevelBelow ==
    (/\ RelatedWithUid
     /\ args.self.namespace = args.other.namespace
     /\ args.other.address # <<>>) =>
        /\ ret.isChildrenOf <=> OneLevelBelow(args.self.address, args.other.address)
        /\ args.self.address = args.other.address => ~ret.isChildrenOf
        /\ (/\ StartsWith(args.self.address, args.other.address)
            /\ Len(args.self.address) > Len(args.other.address)
            /\ Drop(args.self.address, Len(args.other.address))[1] \notin {"/", "["})
               => ~ret.isChildrenOf

\* a/b[1] is asked about a: an item of the array field b of a, no child
C14_Witness ==
    /\ RelatedWithUid
    /\ args.self.namespace = args.other.namespace
    /\ args.self.address = <<"a", "/", "b", "[", "1", "]">>
    /\ args.other.address = <<"a">>
    /\ ~ret.isChildrenOf

\* C15: an element is a child of its namespace (the empty address) exactly
\* when its address holds no / and is not an index alone
C15_RootChildren ==
    (/\ RelatedWithUid
     /\ args.self.namespace = args.other.namespace
     /\ args.other.address = <<>>) =>
        (ret.isChildrenOf <=>
            /\ Count(args.self.address, "/") = 0
            /\ ~INDEX_REGEX(args.self.address))

----------------------------------------------------------------------------
(* Properties of navigation on a virtual element                           *)

\* the step is a navigation on a virtual element with an int or text key
VirtualNavigation ==
    /\ <<op, args, ret>>' # <<op, args, ret>>
    /\ op'.name \in {"virtual_getattr", "virtual_getitem"}
    /\ args'.other.t \in {"int", "text"}

\* the index step for an integer, as the address of an array item has it
IndexStep(n) == <<"[">> \o IntText(n) \o <<"]">>

\* the struct step for a field name
FieldStep(ns, field_name) == <<"/">> \o XMPNamespace_qualify(ns, field_name)

\* the step returned a virtual element at the receiver's address followed
\* by the step, and left the packet and the tree alone
StaysVirtual(step) ==
    /\ op'.err = "none"
    /\ ret' = XMPVirtualElement(args'.self.namespace, args'.self.address \o step)
    /\ store' = store
    /\ nodes' = nodes

\* C16: attribute, text key and integer index on a virtual element return a
\* virtual element at <address>/<qualified name> for a name and at
\* <address>[<index>] for an index, and leave the packet alone
C16_VirtualNavigation ==
    [][VirtualNavigation =>
          StaysVirtual(IF args'.other.t = "int"
                       THEN IndexStep(args'.other.n)
                       ELSE FieldStep(args'.self.namespace, args'.other.chars))]_vars

----------------------------------------------------------------------------
(* Properties of desynchronized                                            *)

RECURSIVE OutOfSync(_, _, _)
\* the packet lacks the element's address, or an element below it is out
\* of sync, or the packet counts another number of items than the array or
\* set has children
OutOfSync(n, tree, packet) ==
    \/ ~does_property_exist(packet, n.namespace, n.address)
    \/ \E a \in ChildAddresses(n) :
           OutOfSync(NodeAt(tree, n.namespace, a), tree, packet)
    \/ /\ n.kind \in {"Array", "Set"}
       /\ count_array_items(packet, n.namespace, n.address)
              # Cardinality(ChildAddresses(n))

\* C17: desynchronized returns a boolean, true exactly when the packet lacks
\* the element's address, a descendant is desynchronized, or the packet's
\* item count differs from the children of an array or set; for a value it
\* is false when the address exists and true when it is missing
C17_Desynchronized ==
    op.name = "desynchronized" =>
        /\ op.err = "none"
        /\ op.result = PyBool(OutOfSync(NodeAt(nodes, op.namespace, op.target),
                                        nodes, store))

----------------------------------------------------------------------------
(* Properties of the namespaces of an XMPMetadata                          *)

\* the tuples flagged both struct and array
Malformed ==
    {e \in Enumerated : e.descriptor.VALUE_IS_STRUCT /\ e.descriptor.VALUE_IS_ARRAY}

\* C18: when a tuple is flagged both struct and array the constructor
\* raises, and no element is made at the tuple's address
C18_MalformedSignalled ==
    (pc \in {"built", "failed"} /\ Malformed # {}) =>
        /\ pc = "failed"
        /\ \A e \in Malformed : ~HasNode(nodes, e.namespace, e.address)

\* C19: every namespace the packet declares is in namespaces(), without
\* children when the packet holds no property of it
C19_EmptyNamespaceRegistered ==
    pc = "built" =>
        \A e \in Range(enum) :
            is_namespace(e) =>
                /\ \E n \in namespaces(nodes) : n.namespace = e.namespace
                /\ elements_by_namespace(enum, e.namespace) = <<>> =>
                       XMPNamespace(e.namespace, <<>>) \in namespaces(nodes)

\* the step looks up a uid that has no namespace in the XMPMetadata
LookupMiss ==
    /\ <<op, ret, nodes>>' # <<op, ret, nodes>>
    /\ op'.name = "namespace"
    /\ ~\E n \in namespaces(nodes) : n.namespace = op'.namespace

\* C20: looking up a uid that is not registered raises nothing, returns a
\* namespace of that uid without children, and leaves the registered
\* namespaces and their number as they were
C20_LookupMissLeavesRegistry ==
    [][LookupMiss =>
          /\ op'.err = "none"
          /\ ret' = XMPNamespace(op'.namespace, <<>>)
          /\ namespaces(nodes') = namespaces(nodes)
          /\ XMPMetadata_len(nodes') = XMPMetadata_len(nodes)
          /\ nodes' = nodes]_vars

\* ns3 was looked up in an XMPMetadata that holds another namespace
C20_Witness ==
    /\ op.name = "namespace"
    /\ op.namespace = NS3
    /\ ret = XMPNamespace(NS3, <<>>)
    /\ XMPMetadata_len(nodes) >= 1
    /\ ~\E n \in namespaces(nodes) : n.namespace = NS3

----------------------------------------------------------------------------
(* Properties of navigation on a struct                                    *)

\* the address of the field of a struct: the struct's address, a / and the
\* qualified name; below a namespace the qualified name alone
FieldAddress(n, field_name) ==
    IF n.address = <<>>
    THEN XMPNamespace_qualify(n.namespace, field_name)
    ELSE n.address \o <<"/">> \o XMPNamespace_qualify(n.namespace, field_name)

\* the struct holds the field
FieldExists(n, field_name) ==
    FieldAddress(n, field_name) \in Range(n.children)

\* a text key that names one field, no path
NamesField(key) == key.t = "text" /\ Count(key.chars, "/") = 0

\* the first field of a text key
FirstField(key) ==
    IF Count(key.chars, "/") = 0 THEN key.chars
    ELSE SubSeq(key.chars, 1, FirstIndexOf(key.chars, "/") - 1)

\* C21: on a struct, struct[key] raises KeyError when the first field of
\* the text key does not exist, while struct.name for a field that does not
\* exist raises nothing and returns a virtual element at the field's
\* address; when the field exists both return the field's element
C21_LookupMissDuality ==
    /\ (op.name = "getitem" /\ args.other.t = "text") =>
           IF ~FieldExists(args.self, FirstField(args.other))
           THEN op.err = "KeyError"
           ELSE NamesField(args.other) =>
                    /\ op.err = "none"
                    /\ ret = NodeAt(nodes, args.self.namespace,
                                    FieldAddress(args.self, args.other.chars))
    /\ op.name = "getattr" =>
           /\ op.err = "none"
           /\ ret = IF FieldExists(args.self, args.other.chars)
                    THEN NodeAt(nodes, args.self.namespace,
                                FieldAddress(args.self, args.other.chars))
                    ELSE XMPVirtualElement(
                             args.self.namespace,
                             FieldAddress(args.self, args.other.chars))

\* the struct p:a has no field n: p:a.n is the virtual element p:a/p:n
C21_Witness ==
    /\ op.name = "getattr"
    /\ args.self.kind = "Structure"
    /\ args.self.address = Addr_a
    /\ args.other = KeyText(<<"n">>)
    /\ ret = XMPVirtualElement(NS1, Addr_a \o <<"/", "p", ":", "n">>)

\* the step indexes a struct or a virtual element
KeyedNavigation ==
    /\ <<op, args, ret>>' # <<op, args, ret>>
    /\ op'.name \in {"getitem", "virtual_getitem"}

\* C22: a key that is neither an int nor a text raises TypeError on a
\* struct and on a virtual element and changes nothing; an int and a text
\* are accepted, and on a struct an int i within the children returns the
\* i-th child
C22_KeyTypes ==
    [][KeyedNavigation =>
          /\ store' = store
          /\ nodes' = nodes
          /\ args'.other.t \notin {"int", "text"} => op'.err = "TypeError"
          /\ args'.other.t \in {"int", "text"} => op'.err # "TypeError"
          /\ (/\ op'.name = "getitem"
              /\ args'.other.t = "int"
              /\ args'.other.n \in 0..(Len(args'.self.children) - 1)) =>
                 /\ op'.err = "none"
                 /\ ret' = NodeAt(nodes, args'.self.namespace,
                                  args'.self.children[args'.other.n + 1])]_vars

----------------------------------------------------------------------------
(* Properties of XMPFile                                                   *)

\* the step is close() on an open XMPFile
ClosesOpenFile ==
    /\ is_open(file)
    /\ file'.calls = Append(file.calls, "close")

\* C23: close() on an open XMPFile releases it whatever close raises:
\* afterwards the XMPFiles is closed, is_open is false and libxmp_file,
\* the packet and the metadata are None
C23_CloseReleases ==
    [][ClosesOpenFile =>
          /\ file'.files_open = file.files_open - 1
          /\ ~is_open(file')
          /\ file'.libxmp_file = "None"
          /\ file'.libxmp_metadata = None
          /\ file'.metadata = "None"]_vars

\* a read-only file was modified and closed: close raised RuntimeWarning
\* and no XMPFiles is left open
C23_Witness ==
    /\ file # NoFile
    /\ file.calls = <<"open", "modify", "close">>
    /\ file.err = "RuntimeWarning"
    /\ file.files_open = 0
    /\ ~is_open(file)

\* C24: nothing done with an XMPFile that is not opened for update changes
\* the packet on disk, and opening it reads that packet
C24_ReadOnlyNeverPersisted ==
    [][(file # NoFile /\ read_only(file)) =>
          /\ file'.disk = file.disk
          /\ (/\ file'.calls = Append(file.calls, "open")
              /\ file'.err = "none") =>
                 file'.libxmp_metadata = Some(file.disk)]_vars

\* a read-only file was opened, modified, closed and opened again: the
\* packet read is the one on disk
C24_Witness ==
    /\ file # NoFile
    /\ read_only(file)
    /\ file.calls = <<"open", "modify", "close", "open">>
    /\ file.err = "none"
    /\ file.libxmp_metadata = Some(file.disk)

----------------------------------------------------------------------------
(* Properties of writing                                                   *)

\* the step reads the value that the step before assigned to an XMPValue
ReadsBack ==
    /\ op.name = "set"
    /\ op.err = "none"
    /\ op.value.t \in {"int", "text"}
    /\ op'.name = "value"
    /\ op'.namespace = op.namespace
    /\ op'.target = op.address

\* C25: a scalar assigned to an XMPValue is in the packet as its text, and
\* reading value gives the scalar back with its type: an int is read as an
\* int, not as text
C25_ScalarRoundTrip ==
    [][ReadsBack =>
          /\ get_property(store, op.namespace, op.address)
                 = Returns(PyText(IF op.value.t = "text" THEN op.value.s
                                  ELSE unicode(op.value)))
          /\ op'.err = "none"
          /\ op'.result = op.value]_vars

\* the step assigns to a virtual element and raises
FailedVirtualSet ==
    /\ steps' = steps + 1
    /\ op'.name = "virtual_set"
    /\ op'.err # "none"

\* C26: an assignment to a virtual element that raises leaves the packet
\* with the properties it had, so the packet never holds an address the
\* tree lacks because of a failed assignment
C26_VirtualSetAllOrNothing ==
    [][FailedVirtualSet =>
          /\ Properties(store') = Properties(store)
          /\ ~HasNode(nodes', op'.namespace, op'.address) =>
                 ~does_property_exist(store', op'.namespace, op'.address)]_vars

====
